---------------------------- MODULE Spec2Model ----------------------------
(***************************************************************************)
(* A model of the Nuke auto-saver of versionUp.py / versionUp12.py: one    *)
(* AutoSaverCallbacks instance, the threading.Timer objects it creates,   *)
(* the host's current document and the host events that drive it.         *)
(*                                                                         *)
(* Paths are sequences of one-character strings, so that the regular      *)
(* expression, os.path and the number formatting of _get_next_version_path *)
(* are computed character by character (os.path is posixpath).            *)
(***************************************************************************)
EXTENDS Integers, Sequences, FiniteSets, TLC

VARIABLES
    variant,                \* which source file runs: "versionUp" or "versionUp12"
    backup_interval,        \* self.backup_interval
    idle_threshold,         \* self.idle_threshold
    last_interaction_time,  \* self.last_interaction_time
    timer,                  \* self.timer: 0 is None, else the slot of a timer
    timers,                 \* the threading.Timer objects that exist, by slot
    registered,             \* whether _track_interaction is a host updateUI callback
    docPath,                \* nuke.root().name()
    now,                    \* time.time()
    lastUiTick,             \* history: time of the host's last UI-update tick
    stopped,                \* history: stop_timer ran and no load/save event since
    last,                   \* history: the operation that ran last, with what it did
    chain                   \* PathSpec: the parts of a path, the path and its next versions

vars == <<variant, backup_interval, idle_threshold, last_interaction_time, timer,
          timers, registered, docPath, now, lastUiTick, stopped, last, chain>>

----------------------------------------------------------------------------
(* Bounds of the model *)

MaxTime == 3
MaxInterval == 2
MaxTimers == 2
MaxApply == 2

----------------------------------------------------------------------------
(* Characters and strings *)

Digits == <<"0", "1", "2", "3", "4", "5", "6", "7", "8", "9">>

UpperCase == <<"A", "B", "C", "D", "E", "F", "G", "H", "I", "J", "K", "L", "M",
               "N", "O", "P", "Q", "R", "S", "T", "U", "V", "W", "X", "Y", "Z">>

LowerCase == <<"a", "b", "c", "d", "e", "f", "g", "h", "i", "j", "k", "l", "m",
               "n", "o", "p", "q", "r", "s", "t", "u", "v", "w", "x", "y", "z">>

IsDigit(c) == \E i \in 1..10 : Digits[i] = c

DigitVal(c) == (CHOOSE i \in 1..10 : Digits[i] = c) - 1

LowerChar(c) ==
    IF \E i \in 1..26 : UpperCase[i] = c
    THEN LowerCase[CHOOSE i \in 1..26 : UpperCase[i] = c]
    ELSE c

\* str.lower()
Lower(s) == [i \in 1..Len(s) |-> LowerChar(s[i])]

\* s[a-1:b] of Python, with 1-based inclusive bounds; empty when b < a
Slice(s, a, b) == [i \in 1..(IF b >= a THEN b - a + 1 ELSE 0) |-> s[a + i - 1]]

\* s.rfind(c), 1-based; 0 when c does not occur
RFind(s, c) ==
    IF \E i \in 1..Len(s) : s[i] = c
    THEN CHOOSE i \in 1..Len(s) : s[i] = c /\ \A j \in (i + 1)..Len(s) : s[j] # c
    ELSE 0

\* int(version_num)
RECURSIVE IntOf(_)
IntOf(ds) ==
    IF ds = <<>> THEN 0
    ELSE 10 * IntOf(Slice(ds, 1, Len(ds) - 1)) + DigitVal(ds[Len(ds)])

\* str(n) for n >= 0
RECURSIVE Decimal(_)
Decimal(n) ==
    IF n < 10 THEN <<Digits[n + 1]>>
    ELSE Decimal(n \div 10) \o <<Digits[(n % 10) + 1]>>

\* format(n, "03d")
RECURSIVE ZeroPad(_, _)
ZeroPad(ds, width) == IF Len(ds) >= width THEN ds ELSE ZeroPad(<<"0">> \o ds, width)

Format03d(n) == ZeroPad(Decimal(n), 3)

----------------------------------------------------------------------------
(* os.path (posixpath) *)

AllSlashes(s) == \A i \in 1..Len(s) : s[i] = "/"

RECURSIVE RStripSlashes(_)
RStripSlashes(s) ==
    IF s # <<>> /\ s[Len(s)] = "/" THEN RStripSlashes(Slice(s, 1, Len(s) - 1)) ELSE s

dirname(p) ==
    LET head == Slice(p, 1, RFind(p, "/"))
    IN  IF head # <<>> /\ ~AllSlashes(head) THEN RStripSlashes(head) ELSE head

basename(p) == Slice(p, RFind(p, "/") + 1, Len(p))

join(a, b) ==
    IF b # <<>> /\ b[1] = "/" THEN b
    ELSE IF a = <<>> \/ a[Len(a)] = "/" THEN a \o b
    ELSE a \o <<"/">> \o b

\* os.path.splitext: the extension starts at the last dot, unless only dots
\* lie between the start of the file name and that dot
splitext(p) ==
    LET sepIndex == RFind(p, "/")
        dotIndex == RFind(p, ".")
    IN  IF dotIndex > sepIndex
           /\ \E i \in (sepIndex + 1)..(dotIndex - 1) : p[i] # "."
        THEN <<Slice(p, 1, dotIndex - 1), Slice(p, dotIndex, Len(p))>>
        ELSE <<p, <<>>>>

----------------------------------------------------------------------------
(* re.search(r'(.+?)(\.v)(\d+)(\.nk)$', base_name, re.IGNORECASE) *)

\* '$' matches at the end of the string and just before a final newline
AtEnd(b, j) == j = Len(b) + 1 \/ (j = Len(b) /\ b[j] = "\n")

\* (\.nk)$ at position e
MatchExt(b, e) ==
    /\ e + 2 <= Len(b)
    /\ b[e] = "."
    /\ LowerChar(b[e + 1]) = "n"
    /\ LowerChar(b[e + 2]) = "k"
    /\ AtEnd(b, e + 3)

\* the number of digits from position j on
RECURSIVE DigitRun(_, _)
DigitRun(b, j) == IF j <= Len(b) /\ IsDigit(b[j]) THEN 1 + DigitRun(b, j + 1) ELSE 0

\* (\d+)(\.nk)$ at position j: greedy, d digits are tried, then d - 1, ...;
\* the number of digits of the match, 0 when there is none
RECURSIVE MatchDigits(_, _, _)
MatchDigits(b, j, d) ==
    IF d = 0 THEN 0
    ELSE IF MatchExt(b, j + d) THEN d
    ELSE MatchDigits(b, j, d - 1)

\* (\.v)(\d+)(\.nk)$ at position j
MatchVersion(b, j) ==
    IF j + 1 <= Len(b) /\ b[j] = "." /\ LowerChar(b[j + 1]) = "v"
    THEN MatchDigits(b, j + 2, DigitRun(b, j + 2))
    ELSE 0

\* (.+?) from position s: lazy, k characters are tried, then k + 1, ...;
\* <<s, k, d>> for the match, <<>> when there is none
RECURSIVE MatchName(_, _, _)
MatchName(b, s, k) ==
    IF s + k - 1 > Len(b) \/ b[s + k - 1] = "\n" THEN <<>>
    ELSE IF MatchVersion(b, s + k) > 0 THEN <<s, k, MatchVersion(b, s + k)>>
    ELSE MatchName(b, s, k + 1)

\* re.search: the leftmost position the pattern matches at
RECURSIVE MatchFrom(_, _)
MatchFrom(b, s) ==
    IF s > Len(b) THEN <<>>
    ELSE IF MatchName(b, s, 1) # <<>> THEN MatchName(b, s, 1)
    ELSE MatchFrom(b, s + 1)

\* match.groups(), <<>> for None
search(b) ==
    LET m == MatchFrom(b, 1)
    IN  IF m = <<>> THEN <<>>
        ELSE LET s == m[1]
                 k == m[2]
                 d == m[3]
             IN  <<Slice(b, s, s + k - 1),
                   Slice(b, s + k, s + k + 1),
                   Slice(b, s + k + 2, s + k + 1 + d),
                   Slice(b, s + k + 2 + d, s + k + 4 + d)>>

----------------------------------------------------------------------------
(* _get_next_version_path *)

\* the version number is read but not incremented
SameVersion(version_num) == IntOf(version_num)

NextVersion(version_num) == IntOf(version_num) + 1

\* the new number is written without zero padding
VersionedNameUnpadded(groups) ==
    groups[1] \o groups[2] \o Decimal(NextVersion(groups[3])) \o groups[4]

\* the name is put together again as it was
VersionedNameUnchanged(groups) == groups[1] \o groups[2] \o groups[3] \o groups[4]

VersionedName(groups) ==
    groups[1] \o groups[2] \o Format03d(NextVersion(groups[3])) \o groups[4]

\* ".v001" is put after the extension
AppendVersionName(base_name) == base_name \o <<".", "v", "0", "0", "1">>

\* no version is inserted
KeepName(base_name) == base_name

FirstVersionName(base_name) ==
    LET parts == splitext(base_name)
    IN  parts[1] \o <<".", "v", "0", "0", "1">> \o parts[2]

GetNextVersionPath(script_path) ==
    LET script_dir == dirname(script_path)
        base_name == basename(script_path)
        match == search(base_name)
        new_name == IF match # <<>> THEN VersionedName(match)
                    ELSE FirstVersionName(base_name)
    IN  join(script_dir, new_name)

----------------------------------------------------------------------------
(* The host: nuke.root().name() and the documents it may hold *)

Root == <<"R", "o", "o", "t">>

Shot010v002 == <<"s", "h", "o", "t", "0", "1", "0", ".", "v", "0", "0", "2", ".", "n", "k">>

Shot010v003 == <<"s", "h", "o", "t", "0", "1", "0", ".", "v", "0", "0", "3", ".", "n", "k">>

RenderNk == <<"r", "e", "n", "d", "e", "r", ".", "n", "k">>

RenderV001 == <<"r", "e", "n", "d", "e", "r", ".", "v", "0", "0", "1", ".", "n", "k">>

\* the names the host may report after a script load
LoadPaths == {<<>>, Root, Shot010v002, RenderNk}

\* "current_path and current_path != 'Root'"
IsDocument(path) == path # <<>> /\ path # Root

----------------------------------------------------------------------------
(* threading.Timer objects. A timer is waiting until its thread wakes up,    *)
(* fired once Timer.run has called its function (the payload is then on its  *)
(* way to the main thread), done when the payload has run, cancelled when    *)
(* cancel() reached it while it was waiting. A slot is free when it holds no *)
(* timer, or a finished one that self.timer does not refer to.              *)

Slots == 1..MaxTimers

FreeSlot == [due |-> 0, st |-> "free"]

NewTimer(interval) == [due |-> now + interval, st |-> "waiting"]

Finished(t) == t.st \in {"cancelled", "done"}

\* a cancel() that stops nothing
CancelNothing(ts, h) == ts

\* Timer.cancel(): stops a timer that is still waiting; one whose function was
\* already called is not affected
Cancel(ts, h) ==
    IF ts[h].st = "waiting" THEN [ts EXCEPT ![h] = [due |-> 0, st |-> "cancelled"]]
    ELSE ts

\* the payload of timer i has run
Done(ts, i) == [ts EXCEPT ![i] = [due |-> 0, st |-> "done"]]

\* finished timers nothing refers to are dropped
Collect(ts, h) == [i \in Slots |-> IF Finished(ts[i]) /\ i # h THEN FreeSlot ELSE ts[i]]

HasRoom(ts) == \E i \in Slots : ts[i].st = "free" \/ Finished(ts[i])

NewSlot(ts) ==
    CHOOSE i \in Slots :
        /\ ts[i].st = "free" \/ Finished(ts[i])
        /\ \A j \in 1..(i - 1) : ~(ts[j].st = "free" \/ Finished(ts[j]))

----------------------------------------------------------------------------
(* AutoSaverCallbacks *)

Variants == {"versionUp", "versionUp12"}

NoCalls == <<>>

\* no path is under study
NoChain == [parts |-> <<>>, paths |-> <<>>]

Idle == [op |-> "none", timer |-> 0, idle_duration |-> 0, tick_age |-> 0,
         path |-> <<>>, calls |-> NoCalls, outcome |-> "none", after_stop |-> FALSE]

\* what an on-load or on-save event leaves in the history
Reset == [Idle EXCEPT !.op = "StartOrResetTimer"]

Init ==
    /\ variant \in Variants
    /\ backup_interval \in 1..MaxInterval
    /\ idle_threshold \in 1..MaxInterval
    /\ last_interaction_time = 0
    /\ timer = 0
    /\ timers = [i \in Slots |-> FreeSlot]
    /\ registered = TRUE
    /\ docPath = Root
    /\ now = 0
    /\ lastUiTick = 0
    /\ stopped = FALSE
    /\ last = Idle
    /\ chain = NoChain

\* self.timer after "if self.timer: self.timer.cancel()"
CancelPending(ts) == IF timer # 0 THEN Cancel(ts, timer) ELSE ts

\* the timer is started without last_interaction_time being set
StartOrResetTimerNoTrack(ts, path) ==
    /\ last_interaction_time' = last_interaction_time
    /\ LET kept == CancelPending(ts)
           slot == NewSlot(kept)
       IN  IF IsDocument(path)
           THEN /\ timers' = Collect([kept EXCEPT ![slot] = NewTimer(backup_interval)], slot)
                /\ timer' = slot
           ELSE /\ timers' = Collect(kept, timer)
                /\ timer' = timer

\* a timer is started whatever name the host reports
StartOrResetTimerAnyPath(ts, path) ==
    /\ last_interaction_time' = now
    /\ LET kept == CancelPending(ts)
           slot == NewSlot(kept)
       IN  /\ timers' = Collect([kept EXCEPT ![slot] = NewTimer(backup_interval)], slot)
           /\ timer' = slot

\* start_or_reset_timer, with ts the timers as they are at the call and path
\* the name the host reports
StartOrResetTimer(ts, path) ==
    /\ last_interaction_time' = now
    /\ LET kept == CancelPending(ts)
           slot == NewSlot(kept)
       IN  IF IsDocument(path)
           THEN /\ timers' = Collect([kept EXCEPT ![slot] = NewTimer(backup_interval)], slot)
                /\ timer' = slot
           ELSE /\ timers' = Collect(kept, timer)
                /\ timer' = timer

\* the timer is cancelled but left in self.timer
StopTimerKeepHandle ==
    /\ timers' = Collect(CancelPending(timers), timer)
    /\ timer' = timer
    /\ registered' = FALSE

\* stop_timer
StopTimer ==
    /\ timers' = Collect(CancelPending(timers), 0)
    /\ timer' = 0
    /\ registered' = FALSE

\* _track_interaction
TrackInteraction == last_interaction_time' = now

----------------------------------------------------------------------------
(* Host events *)

\* the clock advances
Tick ==
    /\ now < MaxTime
    /\ now' = now + 1
    /\ last' = Idle
    /\ UNCHANGED <<variant, backup_interval, idle_threshold, last_interaction_time,
                   timer, timers, registered, docPath, lastUiTick, stopped, chain>>

\* a host UI update: the host calls every registered updateUI callback
UiTick ==
    /\ lastUiTick' = now
    /\ IF registered THEN TrackInteraction ELSE UNCHANGED last_interaction_time
    /\ last' = Idle
    /\ UNCHANGED <<variant, backup_interval, idle_threshold, timer, timers,
                   registered, docPath, now, stopped, chain>>

\* onScriptLoad: the host has loaded a script named p (or an untitled one)
OnLoad(p) ==
    /\ IsDocument(p) => HasRoom(CancelPending(timers))
    /\ docPath' = p
    /\ StartOrResetTimer(timers, p)
    /\ stopped' = FALSE
    /\ last' = Reset
    /\ UNCHANGED <<variant, backup_interval, idle_threshold, registered, now,
                   lastUiTick, chain>>

\* onScriptSave: the user saves the open document
OnSave ==
    /\ IsDocument(docPath)
    /\ HasRoom(CancelPending(timers))
    /\ StartOrResetTimer(timers, docPath)
    /\ stopped' = FALSE
    /\ last' = Reset
    /\ UNCHANGED <<variant, backup_interval, idle_threshold, registered, docPath,
                   now, lastUiTick, chain>>

\* onScriptClose: the callback runs; the host then closes the document, or
\* keeps it when the user cancels the close
OnClose(closes) ==
    /\ StopTimer
    /\ docPath' = IF closes THEN Root ELSE docPath
    /\ stopped' = TRUE
    /\ last' = Idle
    /\ UNCHANGED <<variant, backup_interval, idle_threshold, last_interaction_time,
                   now, lastUiTick, chain>>

----------------------------------------------------------------------------
(* The timer thread and its payload *)

\* Timer.run: the wait is over and the timer was not cancelled, so the thread
\* calls nuke.executeInMainThread(self._execute_version_up)
TimerFire(i) ==
    /\ timers[i].st = "waiting"
    /\ now >= timers[i].due
    /\ timers' = [timers EXCEPT ![i].st = "fired"]
    /\ last' = Idle
    /\ UNCHANGED <<variant, backup_interval, idle_threshold, last_interaction_time,
                   timer, registered, docPath, now, lastUiTick, stopped, chain>>

SaveCall == [op |-> "scriptSave", filename |-> <<>>, overwrite |-> 0]

SaveAsCall(path) == [op |-> "scriptSaveAs", filename |-> path, overwrite |-> 1]

\* what an invocation of _execute_version_up leaves in the history
Ran(i, outcome, calls) ==
    [op |-> "ExecuteVersionUp", timer |-> i,
     idle_duration |-> now - last_interaction_time,
     tick_age |-> now - lastUiTick,
     path |-> docPath, calls |-> calls, outcome |-> outcome,
     after_stop |-> stopped]

\* the invocation returns, or raises, without rescheduling
Return(i) ==
    /\ timers' = Collect(Done(timers, i), timer)
    /\ UNCHANGED <<last_interaction_time, timer>>

\* idle already at the threshold
IsIdleAtThreshold(idle_duration) == idle_duration >= idle_threshold

\* "if idle_duration > self.idle_threshold"
IsIdle(idle_duration) == idle_duration > idle_threshold

\* the idle branch
SkipSave(i) ==
    /\ StartOrResetTimer(Done(timers, i), docPath)
    /\ last' = Ran(i, "skipped", NoCalls)
    /\ UNCHANGED docPath

\* no document is reported: the invocation reschedules all the same
NoDocumentReschedule(i) ==
    /\ StartOrResetTimer(Done(timers, i), docPath)
    /\ last' = Ran(i, "nodoc", NoCalls)
    /\ UNCHANGED docPath

\* "if not current_path or current_path == 'Root': return"
NoDocument(i) ==
    /\ Return(i)
    /\ last' = Ran(i, "nodoc", NoCalls)
    /\ UNCHANGED docPath

\* the plain-save branch of source file v: versionUp12 returns after the save
PlainSaveOf(v, i, ok) ==
    /\ IF ok /\ v = "versionUp"
       THEN StartOrResetTimer(Done(timers, i), docPath)
       ELSE Return(i)
    /\ last' = Ran(i, IF ok THEN "saved" ELSE "error", <<SaveCall>>)
    /\ UNCHANGED docPath

\* the plain-save branch of the source file that runs
PlainSave(i, ok) == PlainSaveOf(variant, i, ok)

\* the save-as branch returning after the save, as the plain-save branch of
\* versionUp12 does
SaveAsAndReturn(i, next_version_path, ok) ==
    /\ docPath' = IF ok THEN next_version_path ELSE docPath
    /\ Return(i)
    /\ last' = Ran(i, IF ok THEN "saved" ELSE "error", <<SaveAsCall(next_version_path)>>)

\* the save-as branch: the host adopts the new name when the save succeeds,
\* and raises when it fails
SaveAs(i, next_version_path, ok) ==
    /\ IF ok
       THEN /\ docPath' = next_version_path
            /\ StartOrResetTimer(Done(timers, i), next_version_path)
       ELSE /\ docPath' = docPath
            /\ Return(i)
    /\ last' = Ran(i, IF ok THEN "saved" ELSE "error", <<SaveAsCall(next_version_path)>>)

\* _execute_version_up of source file v, run on the main thread for fired
\* timer i; ok is whether the host's save call succeeds
ExecuteVersionUpOf(v, i, ok) ==
    /\ timers[i].st = "fired"
    /\ LET idle_duration == now - last_interaction_time
           current_path == docPath
       IN  IF IsIdle(idle_duration)
           THEN SkipSave(i)
           ELSE IF ~IsDocument(current_path)
           THEN NoDocument(i)
           ELSE \E next_version_path \in {GetNextVersionPath(current_path)} :
                    IF Lower(current_path) = Lower(next_version_path)
                    THEN PlainSaveOf(v, i, ok)
                    ELSE SaveAs(i, next_version_path, ok)
    /\ UNCHANGED <<variant, backup_interval, idle_threshold, registered, now,
                   lastUiTick, stopped, chain>>

\* _execute_version_up of the source file that runs
ExecuteVersionUp(i, ok) == ExecuteVersionUpOf(variant, i, ok)

----------------------------------------------------------------------------
(* The specification *)

Next ==
    \/ Tick
    \/ UiTick
    \/ \E p \in LoadPaths : OnLoad(p)
    \/ OnSave
    \/ \E closes \in BOOLEAN : OnClose(closes)
    \/ \E i \in Slots : TimerFire(i)
    \/ \E i \in Slots : \E ok \in BOOLEAN : ExecuteVersionUp(i, ok)

Spec == Init /\ [][Next]_vars

----------------------------------------------------------------------------
(* _get_next_version_path on its own: a path is drawn, and the function is   *)
(* applied to it and then to each result, as when the host adopts every      *)
(* save-as target as the name of the document.                               *)

InputDirs == {<<>>,
              <<"/">>,
              <<"a", "/">>,
              <<"a", "/", "/">>,
              <<"/", "a", "/", "b", "/">>}

InputNames == {<<>>,
               <<".">>,
               <<"a">>,
               <<".", "a">>,
               <<"a", ".", "b">>,
               <<"a", ".", "v", "1">>,
               <<"r", "e", "n", "d", "e", "r">>,
               <<"s", "h", "o", "t", "0", "1", "0">>}

InputVParts == {<<>>,
                <<".", "v">>,
                <<".", "V">>,
                <<"v">>}

InputNums == {<<>>,
              <<"0">>,
              <<"9">>,
              <<"0", "0", "2">>,
              <<"0", "9", "9">>,
              <<"9", "9", "9">>,
              <<"0", "0", "0", "7">>}

InputExts == {<<>>,
              <<".", "n", "k">>,
              <<".", "N", "K">>,
              <<".", "N", "k">>,
              <<".", "e", "x", "r">>,
              <<".", "n", "k", "n", "c">>}

InputParts == InputDirs \X InputNames \X InputVParts \X InputNums \X InputExts

PathOf(parts) == parts[1] \o parts[2] \o parts[3] \o parts[4] \o parts[5]

PathInit ==
    /\ variant = "versionUp"
    /\ backup_interval = 1
    /\ idle_threshold = 1
    /\ last_interaction_time = 0
    /\ timer = 0
    /\ timers = [i \in Slots |-> FreeSlot]
    /\ registered = TRUE
    /\ now = 0
    /\ lastUiTick = 0
    /\ stopped = FALSE
    /\ last = Idle
    /\ \E parts \in InputParts :
          /\ docPath = PathOf(parts)
          /\ chain = [parts |-> parts, paths |-> <<PathOf(parts)>>]

\* the document's name becomes its next version
ApplyNextVersion ==
    /\ Len(chain.paths) <= MaxApply
    /\ docPath' = GetNextVersionPath(docPath)
    /\ chain' = [chain EXCEPT !.paths = Append(@, docPath')]
    /\ UNCHANGED <<variant, backup_interval, idle_threshold, last_interaction_time,
                   timer, timers, registered, now, lastUiTick, stopped, last>>

PathNext == ApplyNextVersion

PathSpec == PathInit /\ [][PathNext]_vars

----------------------------------------------------------------------------
(* Claims about the timer and _execute_version_up, checked under Spec *)

Executed == last.op = "ExecuteVersionUp"

\* self.timer is a timer that has not fired and was not cancelled
TimerPending == timer # 0 /\ timers[timer].st = "waiting"

\* the timers that are scheduled and will call _execute_version_up
LiveTimers == {i \in Slots : timers[i].st = "waiting"}

\* C1: after stop_timer has run, and until an on-load or on-save event starts
\* the timer again, _execute_version_up is not invoked
C1_NoExecuteAfterStop == Executed => ~last.after_stop

C3_IdleSkipsAndReschedules ==
    /\ (Executed /\ last.idle_duration > idle_threshold)
          => (last.calls = NoCalls /\ last.outcome = "skipped" /\ TimerPending)
    /\ (Executed /\ last.idle_duration = idle_threshold) => last.outcome # "skipped"

C5_ActiveFireSavesAndRearms ==
    (Executed /\ ~last.after_stop /\ IsDocument(last.path)
       /\ last.tick_age <= idle_threshold /\ last.outcome # "error")
       => (last.outcome = "saved" /\ TimerPending /\ lastUiTick <= last_interaction_time)

\* C9: an invocation that is not idle, with no document open, makes no host
\* call, schedules no timer and leaves last_interaction_time as it was
C9_NoDocumentNoAction ==
    (Executed /\ last.idle_duration <= idle_threshold /\ ~IsDocument(last.path))
       => /\ last.calls = NoCalls
          /\ last.outcome = "nodoc"
          /\ LiveTimers = {}
          /\ last_interaction_time = now - last.idle_duration
          /\ docPath = last.path

\* the payload ran with no document open, some time after the last interaction
C9_Witness ==
    /\ Executed
    /\ last.idle_duration > 0
    /\ last.idle_duration <= idle_threshold
    /\ ~IsDocument(last.path)

\* C10: an invocation that is not idle, with a document open whose name
\* matches no version pattern, asks the host for a plain save
C10_UnversionedPlainSave ==
    (Executed /\ last.idle_duration <= idle_threshold /\ IsDocument(last.path)
       /\ search(basename(last.path)) = <<>>)
       => last.calls = <<SaveCall>>

----------------------------------------------------------------------------
(* Claims about _get_next_version_path, checked under PathSpec *)

DotV == {<<".", "v">>, <<".", "V">>}

DotNk == <<".", "n", "k">>

V001 == <<".", "v", "0", "0", "1">>

\* NNN + 1, zero-padded to at least 3 digits, for the numbers of InputNums
SuccessorOf(num) ==
    CASE num = <<"0">> -> <<"0", "0", "1">>
      [] num = <<"9">> -> <<"0", "1", "0">>
      [] num = <<"0", "0", "2">> -> <<"0", "0", "3">>
      [] num = <<"0", "9", "9">> -> <<"1", "0", "0">>
      [] num = <<"9", "9", "9">> -> <<"1", "0", "0", "0">>
      [] num = <<"0", "0", "0", "7">> -> <<"0", "0", "8">>

\* x ends with a version token: ".v" or ".V" and then digits only
EndsWithVersionToken(x) ==
    \E i \in 1..Len(x) :
        /\ i + 2 <= Len(x)
        /\ x[i] = "."
        /\ LowerChar(x[i + 1]) = "v"
        /\ \A j \in (i + 2)..Len(x) : IsDigit(x[j])

\* the digits of the version token of a name X.vNNN.ext; <<>> when it has none
VersionDigits(path) ==
    LET b == basename(path)
        x == Slice(b, 1, RFind(b, ".") - 1)
    IN  IF EndsWithVersionToken(x)
        THEN Slice(x, RFind(x, ".") + 2, Len(x))
        ELSE <<>>

HasVersion(path) == VersionDigits(path) # <<>>

VersionNumber(path) == IntOf(VersionDigits(path))

\* a name that ends in ".nk", in any case, after a character other than "."
IsScriptName(b) ==
    /\ Len(b) > 3
    /\ Lower(Slice(b, Len(b) - 2, Len(b))) = DotNk
    /\ \E i \in 1..(Len(b) - 3) : b[i] # "."

Applied == Len(chain.paths) >= 2

\* the path is dir/X.vNNN.ext with X not empty
VersionedInput ==
    /\ chain.parts[2] # <<>>
    /\ chain.parts[3] \in DotV
    /\ chain.parts[4] # <<>>
    /\ chain.parts[5] # <<>>

\* the result is in the directory of the path and is named X.v(NNN+1).ext
VersionedResult ==
    /\ dirname(chain.paths[2]) = dirname(chain.paths[1])
    /\ basename(chain.paths[2]) =
          chain.parts[2] \o chain.parts[3] \o SuccessorOf(chain.parts[4]) \o chain.parts[5]

\* C6, as stated: for a path dir/X.vNNN.ext, ext any extension, the result is
\* dir/X.v(NNN+1).ext with NNN+1 zero-padded to at least 3 digits
C6_VersionedAnyExtension == (Applied /\ VersionedInput) => VersionedResult

\* C6, amended: the same for the extension ".nk", in any case
C6_VersionedScript ==
    (Applied /\ VersionedInput /\ Lower(chain.parts[5]) = DotNk) => VersionedResult

\* /a/b/shot010.V999.NK became /a/b/shot010.V1000.NK
C6_Witness ==
    /\ Applied
    /\ chain.paths[1] = <<"/", "a", "/", "b", "/", "s", "h", "o", "t", "0", "1", "0", ".", "V", "9", "9", "9", ".", "N", "K">>
    /\ chain.paths[2] = <<"/", "a", "/", "b", "/", "s", "h", "o", "t", "0", "1", "0", ".", "V", "1", "0", "0", "0", ".", "N", "K">>

\* C7: for a path whose name X.ext (split as os.path.splitext splits it, so
\* that ext is empty for a name without a dot or with leading dots only)
\* carries no version token, the result is, in the same directory, X.v001.ext
C7_UnversionedGetsV001 ==
    LET parts == splitext(basename(chain.paths[1]))
    IN  (Applied /\ ~EndsWithVersionToken(parts[1]))
           => /\ dirname(chain.paths[2]) = dirname(chain.paths[1])
              /\ basename(chain.paths[2]) = parts[1] \o V001 \o parts[2]

\* a/render.nk became a/render.v001.nk
C7_Witness ==
    /\ Applied
    /\ chain.paths[1] = <<"a", "/", "r", "e", "n", "d", "e", "r", ".", "n", "k">>
    /\ chain.paths[2] = <<"a", "/", "r", "e", "n", "d", "e", "r", ".", "v", "0", "0", "1", ".", "n", "k">>

\* every result after the first carries the version number of the one before
\* it plus 1, and the first carries 001 when the path has no version token
VersionsIncrease ==
    /\ \A k \in 2..(Len(chain.paths) - 1) :
          /\ HasVersion(chain.paths[k])
          /\ HasVersion(chain.paths[k + 1])
          /\ VersionNumber(chain.paths[k + 1]) = VersionNumber(chain.paths[k]) + 1
    /\ (Applied /\ ~HasVersion(chain.paths[1]))
          => VersionDigits(chain.paths[2]) = <<"0", "0", "1">>

\* C8, as stated: for every path p, with q the next version of p and r that of
\* q, the version number of r is that of q plus 1, and the numbers start at 001
C8_VersionsIncreaseAnyPath == VersionsIncrease

\* C8, amended: the same for every path whose name ends in ".nk", in any case,
\* after at least one character other than "."
C8_VersionsIncreaseScript == IsScriptName(basename(chain.paths[1])) => VersionsIncrease

\* render.nk became render.v001.nk and then render.v002.nk
C8_Witness ==
    /\ Len(chain.paths) >= 3
    /\ chain.paths[1] = <<"r", "e", "n", "d", "e", "r", ".", "n", "k">>
    /\ chain.paths[3] = <<"r", "e", "n", "d", "e", "r", ".", "v", "0", "0", "2", ".", "n", "k">>

----------------------------------------------------------------------------
(* Claims about rescheduling, start_or_reset_timer and stop_timer, checked  *)
(* under Spec                                                               *)

\* C11: in either variant, an invocation whose host save call (scriptSave or
\* scriptSaveAs) returns leaves a timer pending that is due backup_interval
\* after the invocation
C11_SaveReschedules ==
    (Executed /\ last.calls # NoCalls /\ last.outcome # "error")
       => (TimerPending /\ timers[timer].due = now + backup_interval)

\* versionUp12 has saved the document and started the next timer
C11_Witness ==
    /\ Executed
    /\ variant = "versionUp12"
    /\ last.outcome = "saved"
    /\ Len(last.calls) = 1
    /\ TimerPending

\* an on-load or on-save event has just run start_or_reset_timer
WasReset == last.op = "StartOrResetTimer"

\* C12: when start_or_reset_timer returns from an on-load or on-save event,
\* last_interaction_time is now, no timer but self.timer is waiting, and
\* self.timer is waiting, due backup_interval from now, exactly when the host
\* reports a document; with no document no timer is waiting at all
C12_ResetArmsForDocument ==
    WasReset
       => /\ last_interaction_time = now
          /\ \A i \in LiveTimers : i = timer
          /\ TimerPending <=> IsDocument(docPath)
          /\ TimerPending => timers[timer].due = now + backup_interval
          /\ ~IsDocument(docPath) => LiveTimers = {}

\* an on-save event, some time after the load, has replaced the timer of the
\* load, which was due earlier, by one due backup_interval from now
C12_Witness ==
    /\ WasReset
    /\ now > 0
    /\ last_interaction_time = now
    /\ IsDocument(docPath)
    /\ TimerPending
    /\ timers[timer].due = now + backup_interval
    /\ \A i \in Slots : i # timer => timers[i].st # "waiting"

\* an untitled script was loaded while a timer was waiting: none is waiting now
C12_WitnessNoDocument ==
    /\ WasReset
    /\ now > 0
    /\ ~IsDocument(docPath)
    /\ LiveTimers = {}

\* C13: stop_timer, run by an on-close event, leaves no timer waiting, self.timer
\* empty and _track_interaction deregistered, whether or not a timer was waiting
\* before; it makes no host save call and leaves last_interaction_time,
\* backup_interval and idle_threshold as they were
C13_StopTimerEffect ==
    [][(\E closes \in BOOLEAN : OnClose(closes))
          => /\ timer' = 0
             /\ LiveTimers' = {}
             /\ ~registered'
             /\ last'.calls = NoCalls
             /\ UNCHANGED <<last_interaction_time, backup_interval, idle_threshold>>]_vars

\* stop_timer has run, some time after the last interaction, and the close
\* was cancelled: the document is still open and no timer is waiting
C13_Witness ==
    /\ stopped
    /\ last.op = "none"
    /\ IsDocument(docPath)
    /\ timer = 0
    /\ LiveTimers = {}
    /\ ~registered
    /\ 0 < last_interaction_time
    /\ last_interaction_time < now

\* the timers that can still lead to an invocation of _execute_version_up:
\* those waiting and those whose payload is on its way to the main thread
AttemptsAhead == {i \in Slots : timers[i].st \in {"waiting", "fired"}}

\* C14: an invocation whose scriptSaveAs call fails has made that one host
\* call and has scheduled nothing: when it ends, no timer is waiting and no
\* payload is on its way, so that no further save attempt follows until an
\* on-load or on-save event starts a timer
C14_FailedSaveEndsAutoSave ==
    (Executed /\ last.outcome = "error")
       => /\ Len(last.calls) = 1
          /\ last.calls[1].op = "scriptSaveAs"
          /\ AttemptsAhead = {}

\* the part of C14 about the failing invocation itself: it starts no timer,
\* and leaves self.timer and last_interaction_time as they were
FailedSaveSchedulesNothing ==
    [][(last'.op = "ExecuteVersionUp" /\ last'.outcome = "error")
          => /\ LiveTimers' \subseteq LiveTimers
             /\ \A i \in LiveTimers' : timers'[i] = timers[i]
             /\ UNCHANGED <<timer, last_interaction_time, docPath>>]_vars

----------------------------------------------------------------------------
(* The two source files, checked under Spec *)

\* C15: versionUp.py and versionUp12.py behave alike: from every reachable
\* state and for either answer of the host, a step that invokes
\* _execute_version_up for a timer is a step of the one file exactly when it is
\* a step of the other, with the same host calls, timers, self.timer,
\* last_interaction_time and document name after it (the two files share
\* every other operation)
C15_VariantsAgree ==
    [][last'.op = "ExecuteVersionUp"
          => \A ok \in BOOLEAN :
                ExecuteVersionUpOf("versionUp", last'.timer, ok)
                   <=> ExecuteVersionUpOf("versionUp12", last'.timer, ok)]_vars

\* versionUp12 has saved shot010.v002.nk as shot010.v003.nk and started the
\* next timer, as versionUp does
C15_Witness ==
    /\ Executed
    /\ variant = "versionUp12"
    /\ last.path = Shot010v002
    /\ last.calls = <<SaveAsCall(Shot010v003)>>
    /\ last.outcome = "saved"
    /\ docPath = Shot010v003
    /\ TimerPending
    /\ timers[timer].due = now + backup_interval
    /\ last_interaction_time = now

----------------------------------------------------------------------------
(* The plain-save branch *)

\* no invocation has asked the host for a plain save; what it saved, it saved
\* under a name other than that of the open document (checked under Spec)
NeverPlainSave ==
    Executed => \A k \in 1..Len(last.calls) :
                   /\ last.calls[k].op = "scriptSaveAs"
                   /\ Lower(last.calls[k].filename) # Lower(last.path)

----------------------------------------------------------------------------
(* Resets and idleness, checked under Spec *)

\* C17: no save is made sooner than backup_interval after an on-load or
\* on-save event, also when the timer of before the event had already fired
\* and its payload was on its way to the main thread: in particular the step
\* that follows such an event, at the same instant, is not an invocation that
\* saves the document
C17_ResetPostponesSave ==
    [][(WasReset /\ last'.op = "ExecuteVersionUp") => last'.outcome # "saved"]_vars

\* C18: start_or_reset_timer sets last_interaction_time when it starts a
\* timer, so an invocation that runs at the due time of its timer finds
\* idle_duration <= backup_interval: such an invocation skips the save only
\* when backup_interval > idle_threshold, and with backup_interval <=
\* idle_threshold and a document open it makes its save call however long ago
\* the last UI tick was; and an invocation that skips the save leaves
\* last_interaction_time = now
C18_IdleBoundedByInterval ==
    [][last'.op = "ExecuteVersionUp"
          => /\ now = timers[last'.timer].due
                   => /\ last'.idle_duration <= backup_interval
                      /\ last'.outcome = "skipped" => backup_interval > idle_threshold
                      /\ (backup_interval <= idle_threshold /\ IsDocument(last'.path))
                            => last'.calls # NoCalls
             /\ last'.outcome = "skipped" => last_interaction_time' = now]_vars

\* with backup_interval <= idle_threshold the document was saved although the
\* last UI tick was more than idle_threshold ago
C18_Witness ==
    /\ Executed
    /\ backup_interval <= idle_threshold
    /\ last.idle_duration = backup_interval
    /\ last.tick_age > idle_threshold
    /\ last.outcome = "saved"
    /\ last_interaction_time = now

\* with backup_interval > idle_threshold the save was skipped, and
\* last_interaction_time was set with no UI tick since the timer was started
C18_WitnessSkip ==
    /\ Executed
    /\ backup_interval > idle_threshold
    /\ last.idle_duration = backup_interval
    /\ last.tick_age >= backup_interval
    /\ last.outcome = "skipped"
    /\ last_interaction_time = now

=============================================================================
